---- MODULE Spec2Model ----
(***************************************************************************)
(* A model of the VK crawler: the paginated fetch (src/src/request.py) and *)
(* the segmentation / quarantine pipeline (src/src/vk_crawler.py).         *)
(*                                                                         *)
(* Texts are sequences of one-character strings.  The characters are the   *)
(* classes the code's regular expressions tell apart:                      *)
(*   "r"  a Cyrillic letter (ru_pattern, case ignored)                     *)
(*   "z"  a CJK ideograph (U+4E00..U+9FFF)                                 *)
(*   "a"  any other printable character (Latin letter, digit, ...)         *)
(*   "#"  the hash sign, " " a blank, "\n" a line break                    *)
(*   "K"  the lead phrase of the daily-remember block, a run of Cyrillic   *)
(*        letters that the pattern of _remove_trash matches                *)
(***************************************************************************)
EXTENDS Integers, Sequences, FiniteSets, TLC

VARIABLES
    source,         \* the items the remote source holds, newest first
    pc,             \* "idle", or "fetching" while page requests are in flight
    call,           \* the call in progress or last made: [op, count]
    tasks,          \* the page requests of that call: [order, offset, count]
    status,         \* per page request: "pending", "ok", "none", "raised"
    payload,        \* per page request: the JSON it returned
    arrived,        \* the page requests in the order the futures are visited
    ret,            \* how the last call ended: [op, outcome, value]
    results_count,  \* VKCrawler._results_count
    posts,          \* VKCrawler._posts
    parsed_posts,   \* VKCrawler._parsed_posts
    skipped_posts,  \* VKCrawler._skipped_posts
    files,          \* the skipped-posts folder: file number -> [date, text]
    origin,         \* for each entry of parsed_posts, where it came from
    fetched,        \* number of posts the successful requests have fetched
    repairs,        \* number of runs of from_txt_to_csv
    calls,          \* number of request / update calls made
    arg,            \* the argument of the last request / update call
    params,         \* VKCrawler._params
    pairs_in,       \* argument of _swap_langs (pure-function specification)
    pairs_out,      \* its result
    text_in,        \* argument of _get_text (pure-function specification)
    text_out        \* its result

fvars == <<pc, call, tasks, status, payload, arrived, ret>>
cvars == <<results_count, posts, parsed_posts, skipped_posts, files,
           origin, fetched, repairs, calls, arg, params>>
pvars == <<pairs_in, pairs_out, text_in, text_out>>
vars == <<source, fvars, cvars, pvars>>

(***************************************************************************)
(* Bounds                                                                  *)
(***************************************************************************)
MaxCount == 250         \* largest count handed to get_json in SpecFetch
MaxSource == 2          \* most posts the source holds in Spec
MaxOps == 3             \* most request, update and from_txt_to_csv calls in Spec

(***************************************************************************)
(* Program constants                                                       *)
(***************************************************************************)
PageCap == 100

Min(a, b) == IF a < b THEN a ELSE b

Range(s) == {s[i] : i \in DOMAIN s}

NoValue == <<>>

(***************************************************************************)
(* request.py, bound_fetch: planning the page requests                     *)
(***************************************************************************)
\* len(range(0, stop, step)) for step > 0
RangeLen(stop, step) == IF stop <= 0 THEN 0 ELSE (stop + step - 1) \div step

RECURSIVE PlanLoopNoClamp(_, _, _, _, _)
PlanLoopNoClamp(num, n, count, remains, acc) ==
    IF num >= n THEN acc
    ELSE LET c == IF count > PageCap THEN PageCap ELSE count
         IN  PlanLoopNoClamp(num + 1, n, c, remains - c,
                 Append(acc, [order |-> num, offset |-> num * PageCap,
                              count |-> c]))

\* the loop without 'if count > remains: count = remains'
PlanNoClamp(count) ==
    PlanLoopNoClamp(0, RangeLen(count, PageCap), count, count, <<>>)

\* the loop body of lines 50-63: num is the enumerate index, n the number of
\* offsets of range(0, count, 100), fixed before the loop rebinds count
RECURSIVE PlanLoop(_, _, _, _, _)
PlanLoop(num, n, count, remains, acc) ==
    IF num >= n THEN acc
    ELSE LET c1 == IF count > remains THEN remains ELSE count
             c2 == IF c1 > PageCap THEN PageCap ELSE c1
         IN  PlanLoop(num + 1, n, c2, remains - c2,
                 Append(acc, [order |-> num, offset |-> num * PageCap,
                              count |-> c2]))

Plan(count) == PlanLoop(0, RangeLen(count, PageCap), count, count, <<>>)

(***************************************************************************)
(* The remote source answering one page request                            *)
(***************************************************************************)
Respond(offset, count) ==
    [response |->
        [count |-> Len(source),
         items |-> SubSeq(source, offset + 1,
                          Min(offset + count, Len(source)))]]

(***************************************************************************)
(* request.py, bound_fetch: collecting the results                         *)
(***************************************************************************)
\* how a page request can end: status 200 with the items, status 200 with
\* the API's error object, another status below 400 (get_json_coro falls off
\* its end and returns None), or an exception (timeout, transport error,
\* raise_for_status)
Outcomes == {"ok", "api_error", "none", "raised"}

ErrorBody == [error |-> "error"]

HasJson(o) == o \in {"ok", "api_error"}

\* what future.result() gives for the page requests, in the order visited
Visited == [k \in 1..Len(arrived) |->
               [order |-> tasks[arrived[k]].order,
                state |-> status[arrived[k]],
                json  |-> payload[arrived[k]]]]

RECURSIVE InsertByOrder(_, _)
InsertByOrder(x, s) ==
    IF s = <<>> THEN <<x>>
    ELSE IF x.order < Head(s).order THEN <<x>> \o s
    ELSE <<Head(s)>> \o InsertByOrder(x, Tail(s))

RECURSIVE SortRec(_)
SortRec(s) ==
    IF s = <<>> THEN <<>>
    ELSE InsertByOrder(s[Len(s)], SortRec(SubSeq(s, 1, Len(s) - 1)))

Unsorted(s) == s

\* posts.sort(key=lambda x: x[0]); the sort is stable
SortByOrder(s) == SortRec(s)

\* the loop over done that lets every failure pass
CollectSkipFailed(v) ==
    LET good == SelectSeq(v, LAMBDA x : HasJson(x.state))
    IN  [outcome |-> "ok",
         value |-> [i \in 1..Len(good) |-> SortByOrder(good)[i].json]]

\* lines 70-83: the first failed future visited re-raises; a request that
\* returned None (a status that is neither 200 nor an error) is appended and
\* breaks the sort key
Collect(v) ==
    IF \E k \in DOMAIN v : v[k].state = "raised"
        THEN [outcome |-> "raised", value |-> NoValue]
    ELSE IF \E k \in DOMAIN v : v[k].state = "none"
        THEN [outcome |-> "TypeError", value |-> NoValue]
    ELSE [outcome |-> "ok",
          value |-> [i \in 1..Len(v) |-> SortByOrder(v)[i].json]]

ReturnsEmpty(t) == [outcome |-> "ok", value |-> <<>>]

\* lines 65-66: no page request planned
NoTasks(t) == [outcome |-> "ValueError", value |-> NoValue]

\* a call that ends before get_json is reached launches nothing
NoLaunch(op, count) ==
    /\ call' = [op |-> op, count |-> count]
    /\ tasks' = <<>>
    /\ status' = <<>>
    /\ payload' = <<>>
    /\ arrived' = <<>>

\* lines 45-63: get_json(url, **params, count=count) plans and launches
Launch(op, count) ==
    /\ call' = [op |-> op, count |-> count]
    /\ tasks' = Plan(count)
    /\ status' = [i \in 1..Len(Plan(count)) |-> "pending"]
    /\ payload' = [i \in 1..Len(Plan(count)) |-> NoValue]
    /\ arrived' = <<>>

\* get_json_coro, lines 26-32: one page request ends
PageDone ==
    /\ pc = "fetching"
    /\ \E i \in DOMAIN tasks, o \in Outcomes :
        /\ status[i] = "pending"
        /\ status' = [status EXCEPT ![i] = o]
        /\ payload' = [payload EXCEPT ![i] =
                          IF o = "ok"
                          THEN Respond(tasks[i].offset, tasks[i].count)
                          ELSE IF o = "api_error" THEN ErrorBody
                          ELSE NoValue]
        /\ arrived' = Append(arrived, i)
    /\ UNCHANGED <<source, pc, call, tasks, ret, cvars, pvars>>

\* a wait that returns at the first failure
FirstFailureOrAllDone ==
    \/ \A i \in DOMAIN tasks : status[i] # "pending"
    \/ \E i \in DOMAIN tasks : status[i] = "raised"

\* line 69: asyncio.wait(tasks) returns when every task is done
AllDone == \A i \in DOMAIN tasks : status[i] # "pending"

\* the result of bound_fetch once asyncio.wait(tasks) has returned
FetchResult == IF tasks = <<>> THEN NoTasks(tasks) ELSE Collect(Visited)

(***************************************************************************)
(* vk_crawler.py: language detection and pair ordering                     *)
(***************************************************************************)
NL == "\n"

\* ru_pattern.search(text): a Cyrillic letter, case ignored
HasCyrillic(text) == \E i \in DOMAIN text : text[i] \in {"r", "K"}

\* re.search of the CJK range U+4E00..U+9FFF
HasCJK(text) == \E i \in DOMAIN text : text[i] = "z"

define_language(text) ==
    IF HasCJK(text) THEN "zho"
    ELSE IF HasCyrillic(text) THEN "rus"
    ELSE ""

Raise(kind) == [ok |-> FALSE, err |-> kind]
Return(v) == [ok |-> TRUE, val |-> v]

\* a pair orderer that never swaps
RECURSIVE swap_langs_keep(_)
swap_langs_keep(pairs) ==
    IF pairs = <<>> THEN Return(<<>>)
    ELSE LET lhs == Head(pairs)[1]
             rhs == Head(pairs)[2]
             rest == swap_langs_keep(Tail(pairs))
         IN  IF HasCyrillic(lhs) /\ define_language(rhs) = "rus"
             THEN Raise("ValueError")
             ELSE IF ~rest.ok THEN rest
             ELSE Return(<<<<lhs, rhs>>>> \o rest.val)

\* lines 206-216: the pairs are visited left to right, the first pair whose
\* left side has a Cyrillic letter and whose right side is 'rus' raises
RECURSIVE swap_langs_loop(_)
swap_langs_loop(pairs) ==
    IF pairs = <<>> THEN Return(<<>>)
    ELSE LET lhs == Head(pairs)[1]
             rhs == Head(pairs)[2]
             rest == swap_langs_loop(Tail(pairs))
         IN  IF HasCyrillic(lhs) /\ define_language(rhs) = "rus"
             THEN Raise("ValueError")
             ELSE IF ~rest.ok THEN rest
             ELSE IF HasCyrillic(lhs)
                  THEN Return(<<<<lhs, rhs>>>> \o rest.val)
                  ELSE Return(<<<<rhs, lhs>>>> \o rest.val)

swap_langs(pairs) == swap_langs_loop(pairs)

(***************************************************************************)
(* vk_crawler.py: noise removal and segmentation                           *)
(***************************************************************************)
LeadLen == 14           \* number of characters the lead phrase "K" stands for

\* len(text)
RECURSIVE TextLen(_)
TextLen(text) ==
    IF text = <<>> THEN 0
    ELSE (IF Head(text) = "K" THEN LeadLen ELSE 1) + TextLen(Tail(text))

\* text.replace('\n \n', '\n\n'): left to right, matches do not overlap
RECURSIVE ReplaceBlankLine(_)
ReplaceBlankLine(text) ==
    IF Len(text) < 3 THEN text
    ELSE IF SubSeq(text, 1, 3) = <<NL, " ", NL>>
         THEN <<NL, NL>> \o ReplaceBlankLine(SubSeq(text, 4, Len(text)))
         ELSE <<Head(text)>> \o ReplaceBlankLine(Tail(text))

\* text.index('\n\n', from): the first position >= from (counted from 1) where
\* two line breaks start, 0 when there is none (str.index raises ValueError)
IndexBlank(text, from) ==
    LET hits == {i \in from..(Len(text) - 1) :
                    text[i] = NL /\ text[i + 1] = NL}
    IN  IF hits = {} THEN 0
        ELSE CHOOSE i \in hits : \A j \in hits : i <= j

\* daily_remember.search(text)
HasLeadPhrase(text) == \E i \in DOMAIN text : text[i] = "K"

\* lines 233-249
remove_trash(text) ==
    IF ~HasLeadPhrase(text) THEN Return(text)
    ELSE LET start == IndexBlank(text, 1)
             stop == IndexBlank(text, start + 2)
         IN  IF start = 0 \/ stop = 0 THEN Raise("ValueError")
             ELSE IF ~HasLeadPhrase(SubSeq(text, start, stop - 1))
                  THEN Raise("ValueError")
             ELSE Return(SubSeq(text, 1, start - 1) \o <<NL, NL>>
                             \o SubSeq(text, stop, Len(text)))

\* text.split('\n')
RECURSIVE Split(_)
Split(text) ==
    IF \A i \in DOMAIN text : text[i] # NL THEN <<text>>
    ELSE LET k == CHOOSE i \in DOMAIN text :
                      text[i] = NL /\ \A j \in 1..(i - 1) : text[j] # NL
         IN  <<SubSeq(text, 1, k - 1)>> \o Split(SubSeq(text, k + 1, Len(text)))

\* text.strip() of one line
RECURSIVE Strip(_)
Strip(line) ==
    IF line = <<>> THEN line
    ELSE IF Head(line) = " " THEN Strip(Tail(line))
    ELSE IF line[Len(line)] = " " THEN Strip(SubSeq(line, 1, Len(line) - 1))
    ELSE line

\* lines 270-274: the lines kept as paragraphs
KeepLine(line) ==
    /\ TextLen(Strip(line)) > 1
    /\ ~(line # <<>> /\ Head(line) = "#")

Paragraphs(text) ==
    LET kept == SelectSeq(Split(text), KeepLine)
    IN  [i \in 1..Len(kept) |-> Strip(kept[i])]

\* zip(paragraphs[::2], paragraphs[1::2])
Zip(paragraphs) ==
    [i \in 1..(Len(paragraphs) \div 2) |->
        <<paragraphs[2 * i - 1], paragraphs[2 * i]>>]

\* lines 265-291
get_text(text) ==
    LET cleared == remove_trash(ReplaceBlankLine(text))
    IN  IF ~cleared.ok THEN cleared
        ELSE LET paragraphs == Paragraphs(cleared.val)
                 pairs == swap_langs(Zip(paragraphs))
             IN  IF paragraphs = <<>> THEN Raise("ValueError")
                 ELSE IF Len(paragraphs) % 2 = 1 THEN Raise("ValueError")
                 ELSE IF ~pairs.ok THEN pairs
                 ELSE Return([header |-> pairs.val[1][2],
                              header_trans |-> pairs.val[1][1],
                              text |-> Tail(pairs.val)])

DaySeconds == 86400

\* _get_date: datetime.fromtimestamp(timestamp).date(), as a day number
get_date(timestamp) == timestamp \div DaySeconds

\* date.strftime("%m/%d/%Y"): the string names the day and nothing else
format_date(date) == [mdY |-> date]

\* datetime.strptime(date, "%m/%d/%Y").timestamp(): midnight of that day
parse_date(str) == str.mdY * DaySeconds

\* lines 328-340
parse_post(post) ==
    LET title_and_text == get_text(post.text)
    IN  IF ~title_and_text.ok THEN title_and_text
        ELSE Return([header |-> title_and_text.val.header,
                     header_trans |-> title_and_text.val.header_trans,
                     text |-> title_and_text.val.text,
                     date |-> format_date(get_date(post.date))])

(***************************************************************************)
(* SpecFetch: get_json called directly with a count                        *)
(***************************************************************************)
\* the caller's params are fixed when the behaviour starts; it may call again
GetJsonCall ==
    /\ pc = "idle"
    /\ call.op = "get_json"
    /\ Launch("get_json", call.count)
    /\ pc' = "fetching"
    /\ ret' = [op |-> "get_json", outcome |-> "running", value |-> NoValue]
    /\ UNCHANGED <<source, cvars, pvars>>

GetJsonReturn ==
    /\ pc = "fetching"
    /\ call.op = "get_json"
    /\ AllDone
    /\ pc' = "idle"
    /\ ret' = [op |-> "get_json", outcome |-> FetchResult.outcome,
               value |-> FetchResult.value]
    /\ UNCHANGED <<source, call, tasks, status, payload, arrived,
                   cvars, pvars>>

FetchSource == [i \in 1..MaxCount |-> i]

InitFetchVars ==
    /\ pc = "idle"
    /\ call = [op |-> "none", count |-> 0]
    /\ tasks = <<>>
    /\ status = <<>>
    /\ payload = <<>>
    /\ arrived = <<>>
    /\ ret = [op |-> "none", outcome |-> "none", value |-> NoValue]

InitCrawlerIdle ==
    /\ results_count = 0
    /\ posts = <<>>
    /\ parsed_posts = <<>>
    /\ skipped_posts = <<>>
    /\ files = <<>>
    /\ origin = <<>>
    /\ fetched = 0
    /\ repairs = 0
    /\ calls = 0
    /\ arg = 0
    /\ params = <<>>

InitPairsIdle ==
    /\ pairs_in = <<>>
    /\ pairs_out = NoValue

InitTextIdle ==
    /\ text_in = <<>>
    /\ text_out = NoValue

InitFetch ==
    /\ source = FetchSource
    /\ pc = "idle"
    /\ call \in [op : {"get_json"}, count : 0..MaxCount]
    /\ tasks = <<>>
    /\ status = <<>>
    /\ payload = <<>>
    /\ arrived = <<>>
    /\ ret = [op |-> "none", outcome |-> "none", value |-> NoValue]
    /\ InitCrawlerIdle
    /\ InitPairsIdle
    /\ InitTextIdle

NextFetch == GetJsonCall \/ PageDone \/ GetJsonReturn

SpecFetch == InitFetch /\ [][NextFetch]_vars

(***************************************************************************)
(* Spec: the crawler, vk_crawler.py                                        *)
(***************************************************************************)
\* the texts the source's posts carry
TextGood == <<"#", "a", NL, "z", "z", NL, "r", "r", NL, "r", "r", NL, "z", "z">>
TextNoMarker == <<"z", "z", NL, "r", "r", NL, "r", "r", NL, "z", "z">>
TextOdd == <<"#", "a", NL, "z", "z", NL, "r", "r", NL, "z", "z">>

\* the text a manual correction writes into a file of the skipped folder
TextFixed == <<"#", "a", NL, "r", "r", NL, "z", "z">>

CorrectedTexts == {TextFixed}

\* a timestamp five seconds into the fourth day
PostDate == 3 * DaySeconds + 5

\* the post the source holds under an id: the oldest lacks the hashtag, the
\* next one has an odd number of paragraphs, the third is well formed, and
\* so on
PostText(id) ==
    IF id % 3 = 1 THEN TextNoMarker
    ELSE IF id % 3 = 2 THEN TextOdd
    ELSE TextGood

RawPost(id) == [id |-> id, date |-> PostDate + id, text |-> PostText(id)]

\* the source holding n posts, newest first, the oldest with id 1
SourceOf(n) == [i \in 1..n |-> RawPost(n + 1 - i)]

\* sum(posts, [])
RECURSIVE Flatten(_)
Flatten(lists) ==
    IF lists = <<>> THEN <<>> ELSE Head(lists) \o Flatten(Tail(lists))

\* a loop that leaves out the posts that fail to parse
parse_posts_drop(ps) ==
    LET good == SelectSeq(ps, LAMBDA p : parse_post(p).ok)
    IN  [parsed |-> [i \in 1..Len(good) |-> parse_post(good[i]).val],
         skipped |-> <<>>]

\* lines 352-365: the posts that parse, parsed, and the ones that raise
\* ValueError, which go to the skipped list, both in the order visited
parse_posts(ps) ==
    LET res == [i \in DOMAIN ps |-> [post |-> ps[i], got |-> parse_post(ps[i])]]
        good == SelectSeq(res, LAMBDA x : x.got.ok)
        bad == SelectSeq(res, LAMBDA x : ~x.got.ok)
    IN  [parsed |-> [i \in 1..Len(good) |-> good[i].got.val],
         skipped |-> [i \in 1..Len(bad) |-> bad[i].post]]

Ended(op, outcome, value) == [op |-> op, outcome |-> outcome, value |-> value]

\* request(count), lines 179-182, up to the page requests being launched
CallRequest(op, count) ==
    IF count > results_count
    THEN /\ NoLaunch(op, count)
         /\ ret' = Ended(op, "ValueError", NoValue)
         /\ UNCHANGED pc
    ELSE /\ Launch(op, count)
         /\ ret' = Ended(op, "running", NoValue)
         /\ pc' = "fetching"

Request ==
    /\ pc = "idle"
    /\ calls + repairs < MaxOps
    /\ \E count \in (-1)..(MaxSource + 1) :
        /\ CallRequest("request", count)
        /\ arg' = count
    /\ calls' = calls + 1
    /\ UNCHANGED <<source, results_count, posts, parsed_posts, skipped_posts,
                   files, origin, fetched, repairs, params, pvars>>

NeverShrunk(total, last) == FALSE

\* line 164: the stored total is below the caller's last total
Shrunk(total, last) == total < last

\* update(last_results_count), lines 164-169
Update ==
    /\ pc = "idle"
    /\ calls + repairs < MaxOps
    /\ \E last \in 0..(MaxSource + 1) :
        /\ IF Shrunk(results_count, last)
           THEN /\ NoLaunch("update", last)
                /\ ret' = Ended("update", "ValueError", NoValue)
                /\ UNCHANGED pc
           ELSE CallRequest("update", results_count - last)
        /\ arg' = last
    /\ calls' = calls + 1
    /\ UNCHANGED <<source, results_count, posts, parsed_posts, skipped_posts,
                   files, origin, fetched, repairs, params, pvars>>

FromFetch(n) == [i \in 1..n |-> [kind |-> "fetch", file |-> 0, text |-> <<>>]]

ClearedOnRaise(old) == <<>>

\* lines 182-186: an exception of get_json or of item['response'] leaves
\* request before line 188 assigns _posts
KeptOnRaise(old) == old

Replaced(old, new) == new

\* lines 189 and 512: self._parsed_posts += ...
Extended(old, new) == old \o new

\* request(count), lines 182-189, once get_json has returned or raised
RequestReturn ==
    /\ pc = "fetching"
    /\ call.op \in {"request", "update"}
    /\ AllDone
    /\ pc' = "idle"
    /\ LET r == FetchResult
       IN  IF r.outcome # "ok"
           THEN /\ ret' = Ended(call.op, r.outcome, NoValue)
                /\ posts' = KeptOnRaise(posts)
                /\ UNCHANGED <<parsed_posts, skipped_posts, origin, fetched>>
           ELSE IF \E i \in DOMAIN r.value : "response" \notin DOMAIN r.value[i]
           THEN /\ ret' = Ended(call.op, "KeyError", NoValue)
                /\ posts' = KeptOnRaise(posts)
                /\ UNCHANGED <<parsed_posts, skipped_posts, origin, fetched>>
           ELSE LET got == Flatten([i \in DOMAIN r.value |->
                                       r.value[i].response.items])
                    res == parse_posts(got)
                IN  /\ posts' = got
                    /\ parsed_posts' = Extended(parsed_posts, res.parsed)
                    /\ skipped_posts' = skipped_posts \o res.skipped
                    /\ origin' = origin \o FromFetch(Len(res.parsed))
                    /\ fetched' = fetched + Len(got)
                    /\ ret' = Ended(call.op, "ok", NoValue)
    /\ UNCHANGED <<source, call, tasks, status, payload, arrived,
                   results_count, files, repairs, calls, arg, params, pvars>>

\* dump_skipped_posts, lines 456-462, and _dump_one_skipped_post: file
\* post<num>.txt holds the formatted date and the text
DumpSkippedPosts ==
    /\ pc = "idle"
    /\ files' = [num \in 1..Len(skipped_posts) |->
                    [date |-> format_date(get_date(skipped_posts[num].date)),
                     text |-> skipped_posts[num].text]]
    /\ ret' = Ended("dump_skipped_posts", "ok", NoValue)
    /\ UNCHANGED <<source, pc, call, tasks, status, payload, arrived,
                   results_count, posts, parsed_posts, skipped_posts, origin,
                   fetched, repairs, calls, arg, params, pvars>>

\* a person corrects the text of one file of the skipped folder
EditFile ==
    /\ pc = "idle"
    /\ \E num \in DOMAIN files, text \in CorrectedTexts :
        /\ files[num].text # text
        /\ files' = [files EXCEPT ![num].text = text]
    /\ UNCHANGED <<source, fvars, results_count, posts, parsed_posts,
                   skipped_posts, origin, fetched, repairs, calls, arg,
                   params, pvars>>

\* _parse_one_skipped_post, lines 476-487
parse_one_skipped_post(file) ==
    [date |-> parse_date(file.date), text |-> file.text]

\* os.listdir gives the names in an order of its own: the model takes the
\* ascending and the descending one
ListDir == {[i \in 1..Len(files) |-> i],
            [i \in 1..Len(files) |-> Len(files) + 1 - i]}

\* the files of the listing whose post parses
Repaired(listing) ==
    SelectSeq(listing,
              LAMBDA num : parse_post(parse_one_skipped_post(files[num])).ok)

\* from_txt_to_csv, lines 500-512
FromTxtToCsv ==
    /\ pc = "idle"
    /\ calls + repairs < MaxOps
    /\ \E listing \in ListDir :
        LET good == Repaired(listing)
        IN  /\ parsed_posts' = Extended(parsed_posts,
                   [i \in 1..Len(good) |->
                       parse_post(parse_one_skipped_post(files[good[i]])).val])
            /\ origin' = origin \o
                   [i \in 1..Len(good) |->
                       [kind |-> "repair", file |-> good[i],
                        text |-> files[good[i]].text]]
            /\ ret' = Ended("from_txt_to_csv", "ok",
                            [before |-> Len(skipped_posts),
                             repaired |-> Range(good)])
    /\ repairs' = repairs + 1
    /\ UNCHANGED <<source, pc, call, tasks, status, payload, arrived,
                   results_count, posts, skipped_posts, files, fetched,
                   calls, arg, params, pvars>>

\* dump_all, lines 408-429: header, header_trans and date are popped from
\* every post in turn; a post without header_trans raises KeyError
DumpAll ==
    /\ pc = "idle"
    /\ LET missing == {i \in DOMAIN parsed_posts :
                          "header_trans" \notin DOMAIN parsed_posts[i]}
           stop == IF missing = {} THEN Len(parsed_posts) + 1
                   ELSE CHOOSE i \in missing : \A j \in missing : i <= j
       IN  /\ parsed_posts' =
                  [i \in DOMAIN parsed_posts |->
                      IF i < stop THEN [text |-> parsed_posts[i].text]
                      ELSE parsed_posts[i]]
           /\ ret' = Ended("dump_all",
                           IF missing = {} THEN "ok" ELSE "KeyError", NoValue)
    /\ UNCHANGED <<source, pc, call, tasks, status, payload, arrived,
                   results_count, posts, skipped_posts, files, origin,
                   fetched, repairs, calls, arg, params, pvars>>

\* a new post appears at the source
SourceGrows ==
    /\ Len(source) < MaxSource
    /\ source' = SourceOf(Len(source) + 1)
    /\ UNCHANGED <<fvars, cvars, pvars>>

\* lines 84-88: the keywords of the constructor, the API version and the token
StoredParams == [query |-> "query", domain |-> "domain", v |-> "5.122",
                 access_token |-> "token"]

\* the state after VKCrawler(...): the probe of line 91 has stored the total
Init ==
    /\ source \in {SourceOf(n) : n \in 0..MaxSource}
    /\ InitFetchVars
    /\ results_count = Len(source)
    /\ posts = <<>>
    /\ parsed_posts = <<>>
    /\ skipped_posts = <<>>
    /\ files = <<>>
    /\ origin = <<>>
    /\ fetched = 0
    /\ repairs = 0
    /\ calls = 0
    /\ arg = 0
    /\ params = StoredParams
    /\ InitPairsIdle
    /\ InitTextIdle

Next ==
    \/ Request
    \/ Update
    \/ PageDone
    \/ RequestReturn
    \/ DumpSkippedPosts
    \/ EditFile
    \/ FromTxtToCsv
    \/ DumpAll
    \/ SourceGrows

Spec == Init /\ [][Next]_vars

(***************************************************************************)
(* SpecPairs: _swap_langs applied to candidate pairs                       *)
(***************************************************************************)
MaxFragLen == 2         \* longest fragment of a candidate pair

FragChars == {"r", "z", "a"}

SeqsUpTo(S, n) == UNION {[1..k -> S] : k \in 1..n}

Fragments == SeqsUpTo(FragChars, MaxFragLen)

CandidatePairs == Fragments \X Fragments

\* a pair the orderer accepts and swaps
GoodPair == <<<<"z">>, <<"r">>>>

\* the candidate pair alone, or before or after a pair that is in order
PairLists ==
    {<<p>> : p \in CandidatePairs}
        \cup {<<p, GoodPair>> : p \in CandidatePairs}
        \cup {<<GoodPair, p>> : p \in CandidatePairs}

InitPairs ==
    /\ source = <<>>
    /\ InitFetchVars
    /\ InitCrawlerIdle
    /\ pairs_in \in PairLists
    /\ pairs_out = NoValue
    /\ InitTextIdle

SwapLangs ==
    /\ pairs_out = NoValue
    /\ pairs_out' = swap_langs(pairs_in)
    /\ UNCHANGED <<source, fvars, cvars, pairs_in, text_in, text_out>>

NextPairs == SwapLangs

SpecPairs == InitPairs /\ [][NextPairs]_vars

(***************************************************************************)
(* SpecText: _get_text applied to post texts                               *)
(***************************************************************************)
MaxLines == 5           \* most lines of a post text

\* the lines a text is made of: a Russian, a Chinese and a Chinese line with
\* a Cyrillic word in it, a hashtag line, an empty line and the lead phrase
LineChoices == {<<"r", "r">>, <<"z", "z">>, <<"z", "r">>, <<"#", "a">>,
                <<>>, <<"K">>}

\* '\n'.join(lines)
RECURSIVE Join(_)
Join(lines) ==
    IF Len(lines) = 1 THEN lines[1]
    ELSE lines[1] \o <<NL>> \o Join(Tail(lines))

Texts == {Join(ls) : ls \in SeqsUpTo(LineChoices, MaxLines)}

InitText ==
    /\ source = <<>>
    /\ InitFetchVars
    /\ InitCrawlerIdle
    /\ InitPairsIdle
    /\ text_in \in Texts
    /\ text_out = NoValue

GetText ==
    /\ text_out = NoValue
    /\ text_out' = get_text(text_in)
    /\ UNCHANGED <<source, fvars, cvars, pairs_in, pairs_out, text_in>>

NextText == GetText

SpecText == InitText /\ [][NextText]_vars

(***************************************************************************)
(* Properties of the paginated fetch, checked under SpecFetch              *)
(***************************************************************************)
Returned == pc = "idle" /\ ret.op = "get_json" /\ ret.outcome # "running"

RECURSIVE SumCounts(_)
SumCounts(ts) == IF ts = <<>> THEN 0 ELSE Head(ts).count + SumCounts(Tail(ts))

\* C1: a fetch that succeeds returns one result per page request, the result
\* of the page with sequence index k at position k + 1 whatever the order
\* the requests ended in, and, when every page carried its items, the items
\* are those of the source from the first to the count-th, in source order.
C1_PagesInOrder ==
    (Returned /\ ret.outcome = "ok") =>
        /\ Len(ret.value) = Len(tasks)
        /\ \A i \in DOMAIN tasks : ret.value[tasks[i].order + 1] = payload[i]
        /\ (\A i \in DOMAIN tasks : status[i] = "ok") =>
               Flatten([i \in DOMAIN ret.value |->
                           ret.value[i].response.items])
                   = SubSeq(source, 1, call.count)

\* a fetch of three pages succeeded although the last page was visited first
C1_Witness ==
    /\ Returned
    /\ ret.outcome = "ok"
    /\ Len(tasks) = 3
    /\ arrived[1] = 3
    /\ \A i \in DOMAIN tasks : status[i] = "ok"

\* C2: when a page request of the batch raised, or ended with a status that
\* is neither 200 nor an error, the fetch ends with an error and hands back
\* nothing; a fetch that returns, returns every page of the batch.
C2_AllOrNothing ==
    Returned =>
        /\ (\E i \in DOMAIN tasks : ~HasJson(status[i])) =>
               (ret.outcome \in {"raised", "TypeError"} /\ ret.value = NoValue)
        /\ ret.outcome = "ok" => Len(ret.value) = Len(tasks)

\* a fetch failed although one of its pages had succeeded
C2_Witness ==
    /\ Returned
    /\ ret.outcome = "raised"
    /\ \E i \in DOMAIN tasks : status[i] = "ok"
    /\ \E i \in DOMAIN tasks : status[i] = "raised"

\* C3 as stated: a fetch with count 0 returns the empty sequence, without a
\* page request and without failing.
C3_ZeroCountReturnsEmpty ==
    (Returned /\ call.count = 0) =>
        (ret.outcome = "ok" /\ ret.value = <<>> /\ tasks = <<>>)

\* C3 amended: a fetch with count 0 issues no page request and fails with
\* ValueError.
C3_ZeroCountRaises ==
    (Returned /\ call.count = 0) =>
        (ret.outcome = "ValueError" /\ tasks = <<>>)

\* a fetch with count 0 has ended
C3_Witness == Returned /\ call.count = 0 /\ ret.outcome = "ValueError"

\* C4: for count >= 1 the page requests launched have the sequence indices
\* 0, 1, ..., n-1, sizes between 1 and the page cap, each offset the sum of
\* the sizes before it, and sizes that sum to count; count 250 launches
\* (0,100), (100,100), (200,50); a count that is no multiple of the cap has
\* full pages followed by one undersized page.
C4_Partition ==
    (ret.op = "get_json" /\ call.count >= 1) =>
        /\ Len(tasks) >= 1
        /\ \A i \in DOMAIN tasks :
            /\ tasks[i].order = i - 1
            /\ tasks[i].count \in 1..PageCap
            /\ tasks[i].offset = SumCounts(SubSeq(tasks, 1, i - 1))
        /\ SumCounts(tasks) = call.count
        /\ call.count = 250 =>
               tasks = <<[order |-> 0, offset |-> 0, count |-> 100],
                         [order |-> 1, offset |-> 100, count |-> 100],
                         [order |-> 2, offset |-> 200, count |-> 50]>>
        /\ call.count % PageCap # 0 =>
               /\ tasks[Len(tasks)].count = call.count % PageCap
               /\ \A i \in 1..(Len(tasks) - 1) : tasks[i].count = PageCap

\* count 250 has been planned
C4_Witness ==
    /\ ret.op = "get_json"
    /\ call.count = 250
    /\ Len(tasks) = 3
    /\ tasks[3].count = 50

(***************************************************************************)
(* Properties of the pair orderer, checked under SpecPairs                 *)
(***************************************************************************)
Ordered == pairs_out # NoValue

SameKnownLanguage(pair) ==
    /\ define_language(pair[1]) = define_language(pair[2])
    /\ define_language(pair[1]) \in {"rus", "zho"}

ExactlyOneRussian(pair) ==
    (define_language(pair[1]) = "rus") # (define_language(pair[2]) = "rus")

\* C7: the pair orderer fails exactly when some candidate pair has both
\* fragments classified to the same known language, both Russian or both
\* Chinese.
C7_SameLanguageFails ==
    Ordered =>
        (~pairs_out.ok <=>
            \E i \in DOMAIN pairs_in : SameKnownLanguage(pairs_in[i]))

\* C8 as stated: in an accepted list, a pair with exactly one Russian
\* fragment has it first, and every other pair keeps its original order.
C8_OtherPairsKeepOrder ==
    (Ordered /\ pairs_out.ok) =>
        \A i \in DOMAIN pairs_in :
            IF ExactlyOneRussian(pairs_in[i])
            THEN /\ define_language(pairs_out.val[i][1]) = "rus"
                 /\ {pairs_out.val[i][1], pairs_out.val[i][2]}
                        = {pairs_in[i][1], pairs_in[i][2]}
            ELSE pairs_out.val[i] = pairs_in[i]

\* C8 amended: in an accepted list, a pair with exactly one Russian fragment
\* has it first; every other pair keeps its original order when its left
\* fragment has a Cyrillic letter and is swapped when it has none.
C8_OtherPairsFollowLeftSide ==
    (Ordered /\ pairs_out.ok) =>
        /\ Len(pairs_out.val) = Len(pairs_in)
        /\ \A i \in DOMAIN pairs_in :
            IF ExactlyOneRussian(pairs_in[i])
            THEN /\ define_language(pairs_out.val[i][1]) = "rus"
                 /\ define_language(pairs_out.val[i][2]) # "rus"
                 /\ {pairs_out.val[i][1], pairs_out.val[i][2]}
                        = {pairs_in[i][1], pairs_in[i][2]}
            ELSE IF HasCyrillic(pairs_in[i][1])
            THEN pairs_out.val[i] = pairs_in[i]
            ELSE pairs_out.val[i] = <<pairs_in[i][2], pairs_in[i][1]>>

\* an accepted list whose first pair came Chinese first and left Russian first
C8_Witness ==
    /\ Ordered
    /\ pairs_out.ok
    /\ define_language(pairs_in[1][1]) = "zho"
    /\ define_language(pairs_in[1][2]) = "rus"
    /\ pairs_out.val[1] = <<pairs_in[1][2], pairs_in[1][1]>>

(***************************************************************************)
(* Properties of the crawler, checked under Spec                           *)
(***************************************************************************)
\* the corpus marker: a hashtag somewhere in the raw text
HasMarker(text) == \E i \in DOMAIN text : text[i] = "#"

\* C5: as long as no repair has run, every post fetched so far is in the
\* parsed corpus or in the skipped list: the two lengths add up to the number
\* of posts fetched, every post of the last batch that fails to parse is in
\* the skipped list, and every one that parses is not and has its pairs in the
\* corpus, also when a failing post came before it in the batch.
C5_EveryPostPlaced ==
    repairs = 0 =>
        /\ Len(parsed_posts) + Len(skipped_posts) = fetched
        /\ \A i \in DOMAIN posts :
            IF parse_post(posts[i]).ok
            THEN /\ posts[i] \notin Range(skipped_posts)
                 /\ \E k \in DOMAIN parsed_posts :
                        parsed_posts[k].text = parse_post(posts[i]).val.text
            ELSE posts[i] \in Range(skipped_posts)

\* a batch in which a post that fails to parse came before one that parses
C5_Witness ==
    /\ repairs = 0
    /\ ret.op \in {"request", "update"}
    /\ ret.outcome = "ok"
    /\ \E i, j \in DOMAIN posts :
        /\ i < j
        /\ ~parse_post(posts[i]).ok
        /\ parse_post(posts[j]).ok

\* C6: a fetched post whose raw text lacks the hashtag is in the skipped
\* list.
C6_NoMarkerQuarantined ==
    \A i \in DOMAIN posts :
        ~HasMarker(posts[i].text) => posts[i] \in Range(skipped_posts)

\* C9: after a run of the repair flow, the entries whose corrected text
\* parsed have left the skipped list and the others are still in it.
C9_RepairedLeavesQuarantine ==
    ret.op = "from_txt_to_csv" =>
        Len(skipped_posts) =
            ret.value.before - Cardinality(ret.value.repaired)

\* C10: no two entries of the parsed corpus come from the repair of the same
\* corrected file.
C10_RepairedOnce ==
    \A i, j \in DOMAIN origin :
        (i # j /\ origin[i].kind = "repair") => origin[i] # origin[j]

(***************************************************************************)
(* Properties of the incremental run, checked under Spec                   *)
(***************************************************************************)
\* a step that is a call of update
UpdateCalled == calls' = calls + 1 /\ call'.op = "update"

\* C11: a call of update whose stored total is below the caller's last total
\* ends at once with ValueError, with no page request launched and posts,
\* parsed corpus and skipped list as they were; no update ever fetches with a
\* negative count.
C11_ShrunkTotalRejected ==
    /\ [][(UpdateCalled /\ results_count < arg') =>
            /\ ret' = Ended("update", "ValueError", NoValue)
            /\ pc' = "idle"
            /\ tasks' = <<>>
            /\ UNCHANGED <<posts, parsed_posts, skipped_posts>>]_vars
    /\ []((pc = "fetching" /\ call.op = "update") => call.count >= 0)

\* update was called with a last total above the stored one
C11_Witness ==
    /\ ret = Ended("update", "ValueError", NoValue)
    /\ results_count < arg
    /\ results_count > 0

\* C12: a call of update whose stored total is at least the caller's last
\* total does not end with ValueError and asks for exactly the difference,
\* also when the two are equal.
C12_GrownTotalAccepted ==
    (call.op = "update" /\ ret.op = "update" /\ results_count >= arg) =>
        /\ ret.outcome # "ValueError"
        /\ call.count = results_count - arg
        /\ SumCounts(tasks) = results_count - arg

(***************************************************************************)
(* Properties of the segmenter, checked under SpecText                     *)
(***************************************************************************)
\* the paragraphs left after noise removal and normalization
Cleared == remove_trash(ReplaceBlankLine(text_in))
Normalized == Paragraphs(Cleared.val)

\* one fragment is Russian and the other Chinese
TwoLanguages(pair) ==
    {define_language(pair[1]), define_language(pair[2])} = {"rus", "zho"}

\* the pair with its Russian fragment first
RussianFirst(pair) ==
    IF define_language(pair[1]) = "rus" THEN pair ELSE <<pair[2], pair[1]>>

\* C13: a text whose n paragraphs, n even and at least 2, form two-language
\* pairs is segmented: the header is the first pair in order, the body holds
\* the other n/2 - 1 pairs, in order, in the order of the paragraphs; a text
\* with no paragraph or an odd number of them fails.
C13_EvenParagraphsSegment ==
    (text_out # NoValue /\ Cleared.ok) =>
        LET n == Len(Normalized)
            cand == Zip(Normalized)
        IN  /\ (n >= 2 /\ n % 2 = 0
                    /\ \A k \in DOMAIN cand : TwoLanguages(cand[k])) =>
                   /\ text_out.ok
                   /\ <<text_out.val.header_trans, text_out.val.header>>
                          = RussianFirst(cand[1])
                   /\ Len(text_out.val.text) = n \div 2 - 1
                   /\ \A k \in DOMAIN text_out.val.text :
                          text_out.val.text[k] = RussianFirst(cand[k + 1])
            /\ (n = 0 \/ n % 2 = 1) => ~text_out.ok

(***************************************************************************)
(* Cancellation, checked under SpecFetch                                   *)
(***************************************************************************)
\* C14 as stated: once a page request of the batch has failed, the page
\* requests still in flight are cancelled, none of them runs to completion.
C14_InFlightCancelled ==
    [][(pc = "fetching" /\ \E i \in DOMAIN tasks : status[i] = "raised") =>
          \A j \in DOMAIN tasks :
              status[j] = "pending" => status'[j] = "pending"]_vars

\* C14 amended: no page request is cancelled; a fetch reports a failure only
\* when every page request of the batch has finished.
C14_FailureAfterAllFinished ==
    (Returned /\ ret.outcome \in {"raised", "TypeError"}) =>
        /\ \A i \in DOMAIN tasks : status[i] # "pending"
        /\ Len(arrived) = Len(tasks)

\* a fetch of three pages failed; the page visited first had failed and the
\* two others ran to their end
C14_Witness ==
    /\ Returned
    /\ ret.outcome = "raised"
    /\ Len(tasks) = 3
    /\ status[arrived[1]] = "raised"
    /\ status[arrived[2]] = "ok"
    /\ status[arrived[3]] = "ok"

(***************************************************************************)
(* The corpus across calls, checked under Spec                             *)
(***************************************************************************)
\* C15: a parsed post, once in the corpus, is never changed or removed by a
\* later operation: every step leaves each post of parsed_posts, with its
\* header, translated header, text and date, where and as it was.
C15_ParsedPostImmutable ==
    [][\A i \in DOMAIN parsed_posts :
          /\ i \in DOMAIN parsed_posts'
          /\ parsed_posts'[i] = parsed_posts[i]]_vars

\* a step of request, update or from_txt_to_csv: the call itself, a page
\* request ending, or the return
CorpusCallStep ==
    \/ calls' # calls
    \/ repairs' # repairs
    \/ pc = "fetching"

\* C16: across request, update and from_txt_to_csv the corpus only grows:
\* no step of these calls shortens parsed_posts or changes a post that is
\* already in it.
C16_CorpusOnlyGrows ==
    [][CorpusCallStep =>
          /\ Len(parsed_posts') >= Len(parsed_posts)
          /\ \A i \in DOMAIN parsed_posts :
                parsed_posts'[i] = parsed_posts[i]]_vars

\* a post of a fetch is still first after a later from_txt_to_csv has
\* appended a repaired one, and a later request has run as well
C16_Witness ==
    /\ Len(parsed_posts) >= 2
    /\ origin[1].kind = "fetch"
    /\ origin[2].kind = "repair"
    /\ calls >= 2
    /\ pc = "idle"
    /\ ret.op = "request"
    /\ ret.outcome = "ok"

\* C17: the total update works with is the source's total at the time of
\* the call: an update that goes on to fetch asks for the items the source
\* holds now beyond the caller's last total.
C17_FreshTotalUsed ==
    [][(UpdateCalled /\ pc' = "fetching") =>
          call'.count = Len(source) - arg']_vars

\* a step on which a call of request or update ends by raising
RequestFails ==
    \/ /\ calls' = calls + 1
       /\ ret'.outcome = "ValueError"
    \/ /\ pc = "fetching"
       /\ pc' = "idle"
       /\ ret'.outcome # "ok"

\* C18: a request that fails leaves the crawler as it was before the call:
\* neither the steps of the call up to its end nor the step on which it
\* raises change posts, parsed_posts, skipped_posts or the stored parameters.
C18_FailedRequestKeepsState ==
    [][(RequestFails \/ pc' = "fetching") =>
          UNCHANGED <<posts, parsed_posts, skipped_posts, params>>]_vars

\* a request whose page request failed, made after an earlier request had
\* filled posts, parsed_posts and skipped_posts
C18_Witness ==
    /\ ret = Ended("request", "raised", NoValue)
    /\ pc = "idle"
    /\ posts # <<>>
    /\ parsed_posts # <<>>
    /\ skipped_posts # <<>>
    /\ params = StoredParams

====
